---- MODULE Spec2Model ----
(***************************************************************************)
(* DeepSpear AI: the detection API (POST /detect, GET /result/{id},        *)
(* GET /history, GET /health), its file utilities, the classification      *)
(* service and the detection_results table, as documented in               *)
(* docs/05-backend-development.md.                                         *)
(*                                                                         *)
(* Representation.                                                         *)
(*  - A string that the code splits or searches is a sequence of tokens:   *)
(*    a filename is the sequence of its "."-separated parts (what          *)
(*    filename.split(".") returns, so "" is <<"">>), a message is the      *)
(*    sequence of its words.                                               *)
(*  - A probability is a fixed-point number with five decimals (One is     *)
(*    1.0); round(x, 4) is Round4.                                         *)
(*  - uuid.uuid4() returns an identifier no other call returns.            *)
(*  - processing_time and the success message are not modelled.            *)
(*                                                                         *)
(* The React client (client/src): services/api.js, pages/DetectionPage.js  *)
(* and pages/ResultPage.js under the router of App.js. The browser's HTTP  *)
(* exchange is the environment: every request settles with a response, an  *)
(* error response, no response (network error, timeout) or a setup error.  *)
(***************************************************************************)
EXTENDS Integers, Sequences, FiniteSets, TLC

(* ------------------------------ bounds -------------------------------- *)

\* Number of POST /detect requests the clients send.
MaxReq == 2

\* Largest value of the database clock (func.now()).
MaxClock == 2

\* Number of uploads the DetectionPage starts.
MaxUploads == 2

(* ------------------------- configuration ------------------------------ *)

MAX_FILE_SIZE == 10485760

ALLOWED_EXTENSIONS == {"jpg", "jpeg", "png", "gif", "bmp", "webp"}

UPLOAD_FOLDER == "uploads"

ALLOWED_MIME_TYPES ==
  {"image/jpeg", "image/jpg", "image/png", "image/gif", "image/bmp", "image/webp"}

\* 1.0 in fixed point, five decimals.
One == 10 * 10000

\* float(os.getenv("CONFIDENCE_THRESHOLD", 0.5))
CONFIDENCE_THRESHOLD == One \div 2

(* ---------------------------- the inputs ------------------------------ *)

Reqs == 1..MaxReq

\* A request that carries no "file" field.
NoFile ==
  [present |-> FALSE, filename |-> <<"">>, size |-> 0, content_type |-> "",
   content |-> "empty"]

UploadFile(filename, size, content_type, content) ==
  [present |-> TRUE, filename |-> filename, size |-> size,
   content_type |-> content_type, content |-> content]

\* The uploads the clients send. content is "image" (a decodable image),
\* "garbage" (bytes PIL cannot open) or "empty" (no bytes, size 0);
\* content_type "" is a part that declares no Content-Type.
Uploads ==
  { UploadFile(<<"test", "jpg">>, 1024, "image/jpeg", "image"),
    UploadFile(<<"Photo", "PNG">>, MAX_FILE_SIZE, "", "garbage"),
    UploadFile(<<"test", "jpg">>, 0, "image/jpeg", "empty"),
    UploadFile(<<"test", "txt">>, 1024, "text/plain", "garbage"),
    UploadFile(<<"notes", "TXT">>, 1024, "image/jpeg", "garbage"),
    UploadFile(<<"">>, 1024, "image/jpeg", "image"),
    UploadFile(<<"test", "txt">>, MAX_FILE_SIZE + 1, "text/plain", "garbage"),
    UploadFile(<<"big", "jpg">>, MAX_FILE_SIZE + 1, "image/jpeg", "image"),
    UploadFile(<<"test", "jpg">>, 1024, "text/plain", "garbage"),
    NoFile }

\* The filenames a client may choose for an upload.
Filenames == { u.filename : u \in Uploads } \cup { <<"test", "png">>, <<"other", "JPG">> }

VARIABLES
  req,          \* req[r]: the POST /detect request r and the locals of its handler
  records,      \* the detection_results table, in insertion order
  id_seq,       \* the last value the table's id sequence handed out
  files,        \* the paths that exist on the server's disk
  ml_service    \* the FakeDetectionService singleton

server_vars == <<req, records, id_seq, files, ml_service>>

VARIABLES
  location,     \* the browser's route: <<"detect">> or <<"result", resultId>>
  dp,           \* the state of the mounted DetectionPage
  drop,         \* the file onDrop is compressing, if any
  attempts,     \* the handleUpload calls that reached uploadImage, in order
  rp,           \* the state of the mounted ResultPage
  fetches       \* the fetchResult calls, in order

client_vars == <<location, dp, drop, attempts, rp, fetches>>

vars == <<server_vars, client_vars>>

(* --------------------------- file utilities --------------------------- *)

\* str.lower() on the tokens that occur.
Lower(s) ==
  CASE s = "JPG" -> "jpg"
    [] s = "PNG" -> "png"
    [] s = "TXT" -> "txt"
    [] s = "Photo" -> "photo"
    [] s = "File" -> "file"
    [] s = "MIME" -> "mime"
    [] s = "No" -> "no"
    [] s = "Filename" -> "filename"
    [] OTHER -> s

Last(seq) == seq[Len(seq)]

\* file.filename.split(".")[-1].lower()
Extension(filename) == Lower(Last(filename))

\* validate_file without the size check.
validate_file_NoSize(file) ==
  IF ~file.present
    THEN [valid |-> FALSE, error |-> <<"No", "file", "provided">>]
  ELSE IF file.filename = <<"">>
    THEN [valid |-> FALSE, error |-> <<"Filename", "is", "required">>]
  ELSE IF Extension(file.filename) \notin ALLOWED_EXTENSIONS
    THEN [valid |-> FALSE,
          error |-> <<"File", "type", Extension(file.filename), "not", "allowed">>]
  ELSE IF file.content_type # "" /\ file.content_type \notin ALLOWED_MIME_TYPES
    THEN [valid |-> FALSE,
          error |-> <<"MIME", "type", file.content_type, "not", "allowed">>]
  ELSE [valid |-> TRUE, error |-> <<>>]

\* validate_file without the extension check.
validate_file_NoExtension(file) ==
  IF ~file.present
    THEN [valid |-> FALSE, error |-> <<"No", "file", "provided">>]
  ELSE IF file.size # 0 /\ file.size > MAX_FILE_SIZE
    THEN [valid |-> FALSE,
          error |-> <<"File", "size", "exceeds", "maximum", "allowed", "size">>]
  ELSE IF file.filename = <<"">>
    THEN [valid |-> FALSE, error |-> <<"Filename", "is", "required">>]
  ELSE IF file.content_type # "" /\ file.content_type \notin ALLOWED_MIME_TYPES
    THEN [valid |-> FALSE,
          error |-> <<"MIME", "type", file.content_type, "not", "allowed">>]
  ELSE [valid |-> TRUE, error |-> <<>>]

\* validate_file(file): {"valid": ..., "error": ...}
validate_file(file) ==
  IF ~file.present
    THEN [valid |-> FALSE, error |-> <<"No", "file", "provided">>]
  ELSE IF file.size # 0 /\ file.size > MAX_FILE_SIZE
    THEN [valid |-> FALSE,
          error |-> <<"File", "size", "exceeds", "maximum", "allowed", "size">>]
  ELSE IF file.filename = <<"">>
    THEN [valid |-> FALSE, error |-> <<"Filename", "is", "required">>]
  ELSE IF Extension(file.filename) \notin ALLOWED_EXTENSIONS
    THEN [valid |-> FALSE,
          error |-> <<"File", "type", Extension(file.filename), "not", "allowed">>]
  ELSE IF file.content_type # "" /\ file.content_type \notin ALLOWED_MIME_TYPES
    THEN [valid |-> FALSE,
          error |-> <<"MIME", "type", file.content_type, "not", "allowed">>]
  ELSE [valid |-> TRUE, error |-> <<>>]

\* An identifier generator that repeats itself.
uuid4_Fixed(r) == 1

\* uuid.uuid4() as called by request r: a fresh identifier.
uuid4(r) == r

NoPath == <<>>

\* A staging path that keeps the client's filename.
StagingPath_ClientName(filename, file_id) ==
  <<UPLOAD_FOLDER, [stem |-> file_id, ext |-> filename]>>

\* A staging path named after the upload's extension only, without the
\* identifier.
StagingPath_NoId(filename, file_id) ==
  LET original_extension ==
        IF filename # <<"">> THEN Extension(filename) ELSE "jpg"
  IN  <<UPLOAD_FOLDER, [stem |-> 0, ext |-> original_extension]>>

\* upload_dir / f"{file_id}.{original_extension}": a path is the sequence of
\* its components.
StagingPath(filename, file_id) ==
  LET original_extension ==
        IF filename # <<"">> THEN Extension(filename) ELSE "jpg"
  IN  <<UPLOAD_FOLDER, [stem |-> file_id, ext |-> original_extension]>>

\* save_uploaded_file whose except branch leaves the partly written file.
save_uploaded_file_LeavesPartial(file, file_id, disk, write_ok) ==
  LET file_path == StagingPath(file.filename, file_id) IN
  IF file.content = "empty"
    THEN [ok |-> FALSE, file_path |-> NoPath, disk |-> disk \ {file_path},
          error |-> <<"Error", "saving", "file:", "Empty", "file">>]
  ELSE IF ~write_ok
    THEN [ok |-> FALSE, file_path |-> NoPath, disk |-> disk \cup {file_path},
          error |-> <<"Error", "saving", "file:", "write", "failed">>]
  ELSE [ok |-> TRUE, file_path |-> file_path, disk |-> disk \cup {file_path},
        error |-> <<>>]

\* save_uploaded_file(file, file_id) on the disk `disk`; write_ok is whether
\* the write and the chmod succeed. The result: the path returned (ok), or
\* the exception raised, and the disk afterwards.
save_uploaded_file(file, file_id, disk, write_ok) ==
  LET file_path == StagingPath(file.filename, file_id) IN
  IF file.content = "empty"
    THEN [ok |-> FALSE, file_path |-> NoPath, disk |-> disk \ {file_path},
          error |-> <<"Error", "saving", "file:", "Empty", "file">>]
  ELSE IF ~write_ok
    THEN [ok |-> FALSE, file_path |-> NoPath, disk |-> disk \ {file_path},
          error |-> <<"Error", "saving", "file:", "write", "failed">>]
  ELSE [ok |-> TRUE, file_path |-> file_path, disk |-> disk \cup {file_path},
        error |-> <<>>]

\* upload_dir in file_obj.resolve().parents
InUploadDir(file_path) ==
  Len(file_path) >= 2 /\ file_path[1] = UPLOAD_FOLDER

\* cleanup_file without the upload-directory test.
cleanup_file_NoDirCheck(file_path, disk, unlink_ok) ==
  IF file_path \in disk /\ unlink_ok
    THEN [removed |-> TRUE, disk |-> disk \ {file_path}]
    ELSE [removed |-> FALSE, disk |-> disk]

\* cleanup_file(file_path) on the disk `disk`; unlink_ok is whether unlink
\* succeeds (it raises otherwise, and the exception is caught).
cleanup_file(file_path, disk, unlink_ok) ==
  IF file_path \in disk /\ InUploadDir(file_path) /\ unlink_ok
    THEN [removed |-> TRUE, disk |-> disk \ {file_path}]
    ELSE [removed |-> FALSE, disk |-> disk]

(* ------------------------ classification service ---------------------- *)

\* round(x, 4) of a five-decimal fixed-point number (no input used is a tie).
Round4(x) == ((x + 5) \div 10) * 10

\* probabilities[0][1].item() of the dummy model: a softmax output.
ModelProbs == {4, 50001}

\* random.uniform(0.1, 0.9)
RandomProbs == {10000}

\* FakeDetectionService.__init__
NewService == [model_loaded |-> FALSE, model |-> "None"]

\* load_model(): outcome "file" (the model file exists: nothing is loaded into
\* self.model), "dummy" (no model file: the dummy model is created) or "error"
\* (an exception: the service stays unloaded and predict falls back to
\* random.uniform, as it does after "file").
load_model(svc, outcome) ==
  CASE outcome = "file" -> [model_loaded |-> TRUE, model |-> svc.model]
    [] outcome = "dummy" -> [model_loaded |-> TRUE, model |-> "dummy"]
    [] OTHER -> [model_loaded |-> FALSE, model |-> svc.model]

\* The return value of predict's except branch.
SafeDefault(cause) ==
  [is_fake |-> FALSE, confidence |-> 0,
   details |-> [text |-> <<"Error", "during", "prediction:", cause>>, raw |-> 0]]

\* What a call of predict ends with: a value returned, or an exception that
\* reaches the caller.
Returns(value) == [propagates |-> FALSE, value |-> value]

Raises(cause) == [propagates |-> TRUE, value |-> SafeDefault(cause)]

\* predict reporting the confidence as a percentage.
predict_Percent(svc, readable, model_prob, random_prob, raises) ==
  IF ~readable THEN Returns(SafeDefault("preprocessing"))
  ELSE IF raises THEN Returns(SafeDefault("inference"))
  ELSE
    LET fake_prob == IF svc.model_loaded /\ svc.model # "None"
                       THEN model_prob ELSE random_prob
        is_fake == fake_prob > CONFIDENCE_THRESHOLD
        confidence == IF is_fake THEN fake_prob ELSE One - fake_prob
    IN  Returns([is_fake |-> is_fake, confidence |-> Round4(confidence) * 100,
                 details |-> [text |-> <<"Template", "implementation">>,
                              raw |-> Round4(fake_prob)]])

\* predict without its try/except: the exception reaches the caller.
predict_NoExcept(svc, readable, model_prob, random_prob, raises) ==
  IF ~readable THEN Raises("preprocessing")
  ELSE IF raises THEN Raises("inference")
  ELSE
    LET fake_prob == IF svc.model_loaded /\ svc.model # "None"
                       THEN model_prob ELSE random_prob
        is_fake == fake_prob > CONFIDENCE_THRESHOLD
        confidence == IF is_fake THEN fake_prob ELSE One - fake_prob
    IN  Returns([is_fake |-> is_fake, confidence |-> Round4(confidence),
                 details |-> [text |-> <<"Template", "implementation">>,
                              raw |-> Round4(fake_prob)]])

\* predict(image_path), after load_model: svc is the service, readable whether
\* Image.open(image_path) succeeds, model_prob / random_prob the value the
\* model or random.uniform gives, raises whether inference throws.
predict(svc, readable, model_prob, random_prob, raises) ==
  IF ~readable THEN Returns(SafeDefault("preprocessing"))
  ELSE IF raises THEN Returns(SafeDefault("inference"))
  ELSE
    LET fake_prob == IF svc.model_loaded /\ svc.model # "None"
                       THEN model_prob ELSE random_prob
        is_fake == fake_prob > CONFIDENCE_THRESHOLD
        confidence == IF is_fake THEN fake_prob ELSE One - fake_prob
    IN  Returns([is_fake |-> is_fake, confidence |-> Round4(confidence),
                 details |-> [text |-> <<"Template", "implementation">>,
                              raw |-> Round4(fake_prob)]])

(* ------------------------------ database ------------------------------ *)

\* DetectionResult.validate_confidence: TRUE when the value is accepted
\* (ValueError otherwise).
validate_confidence(confidence) == 0 <= confidence /\ confidence <= One

\* DetectionResult.validate_file_size
validate_file_size(size) == size >= 0

\* DetectionResult(...) as detect_fake_content builds it; id and created_at
\* are assigned by the database on insert.
DetectionResult(file, file_path, detection_result) ==
  [id |-> 0,
   filename |-> file.filename,
   file_path |-> file_path,
   file_size |-> file.size,
   mime_type |-> IF file.content_type # "" THEN file.content_type ELSE "unknown",
   is_fake |-> detection_result.is_fake,
   confidence_score |-> detection_result.confidence,
   model_version |-> "v1.0",
   created_at |-> 0,
   analysis_details |-> detection_result.details]

\* func.now() at an insert: the clock never runs backwards, and between two
\* inserts it has either not advanced (equal timestamps) or advanced.
LastCreatedAt ==
  IF records = <<>> THEN 0 ELSE records[Len(records)].created_at

Now ==
  IF records = <<>> THEN {1}
  ELSE { t \in {LastCreatedAt, LastCreatedAt + 1} : t <= MaxClock }

\* An insert that stores the row twice.
Inserted_Twice(table, row, id, now) ==
  Append(Append(table, [row EXCEPT !.id = id, !.created_at = now]),
         [row EXCEPT !.id = id, !.created_at = now])

\* An insert that writes over the newest row.
Inserted_Overwrite(table, row, id, now) ==
  IF table = <<>>
    THEN Append(table, [row EXCEPT !.id = id, !.created_at = now])
    ELSE [table EXCEPT ![Len(table)] = [row EXCEPT !.id = id, !.created_at = now]]

\* db.add + db.commit: the row as stored, with the id the sequence gives and
\* the server's timestamp.
Inserted(table, row, id, now) ==
  Append(table, [row EXCEPT !.id = id, !.created_at = now])

\* A lookup that drops the filter and takes the newest row.
QueryById_Latest(result_id) ==
  IF records = <<>> THEN <<>> ELSE <<records[Len(records)]>>

\* A lookup whose filter is id <= result_id.
QueryById_AtMost(result_id) ==
  LET hits == { i \in 1..Len(records) : records[i].id <= result_id }
  IN  IF hits = {} THEN <<>>
      ELSE <<records[CHOOSE i \in hits : \A j \in hits : i <= j]>>

\* db.query(DetectionResult).filter(DetectionResult.id == result_id).first()
QueryById(result_id) ==
  LET hits == { i \in 1..Len(records) : records[i].id = result_id }
  IN  IF hits = {} THEN <<>>
      ELSE <<records[CHOOSE i \in hits : \A j \in hits : i <= j]>>

(* --------------------------- read endpoints --------------------------- *)

\* GET /result/{result_id}
get_detection_result(result_id) ==
  LET result == QueryById(result_id) IN
  IF result = <<>>
    THEN [status |-> 404, detail |-> <<"Detection", "result", "not", "found">>]
    ELSE [status |-> 200,
          body |-> [id |-> result[1].id,
                    filename |-> result[1].filename,
                    is_fake |-> result[1].is_fake,
                    confidence |-> result[1].confidence_score,
                    model_version |-> result[1].model_version,
                    created_at |-> result[1].created_at,
                    file_size |-> result[1].file_size,
                    mime_type |-> result[1].mime_type,
                    analysis_details |-> result[1].analysis_details]]

\* The orders in which ORDER BY created_at DESC may return the table: every
\* permutation of the rows with created_at non-increasing (the order of rows
\* with equal timestamps is the database's choice).
RowOrders(n) ==
  { p \in [1..n -> 1..n] : \A i, j \in 1..n : i # j => p[i] # p[j] }

\* ORDER BY created_at ASC.
OrderByCreatedAtAsc ==
  { p \in RowOrders(Len(records)) :
      \A i, j \in 1..Len(records) :
        i < j => records[p[i]].created_at <= records[p[j]].created_at }

OrderByCreatedAtDesc ==
  { p \in RowOrders(Len(records)) :
      \A i, j \in 1..Len(records) :
        i < j => records[p[i]].created_at >= records[p[j]].created_at }

Min(a, b) == IF a <= b THEN a ELSE b

\* A page that ignores the offset.
Page_FromStart(order, limit, offset) ==
  [ k \in 1..(Min(offset + limit, Len(records)) - Min(offset, Len(records))) |->
      records[order[k]] ]

\* The page .offset(offset).limit(limit) cuts out of the ordered rows.
Page(order, limit, offset) ==
  [ k \in 1..(Min(offset + limit, Len(records)) - Min(offset, Len(records))) |->
      records[order[offset + k]] ]

\* One entry of the history's "results".
HistoryEntry(result) ==
  [id |-> result.id,
   filename |-> result.filename,
   is_fake |-> result.is_fake,
   confidence |-> result.confidence_score,
   created_at |-> result.created_at]

\* GET /history?limit=&offset= : the responses it may give.
get_detection_history(limit, offset) ==
  { [status |-> 200,
     body |-> [results |-> [ k \in DOMAIN Page(order, limit, offset) |->
                               HistoryEntry(Page(order, limit, offset)[k]) ],
               total |-> Len(records),
               limit |-> limit,
               offset |-> offset,
               has_next |-> (offset + limit) < Len(records)]] :
    order \in OrderByCreatedAtDesc }

\* GET /health
health_check ==
  [status |-> 200,
   body |-> [status |-> "healthy", service |-> "DeepSpear AI Detection API",
             version |-> "1.0.0"]]

(* ------------------------------ POST /detect --------------------------- *)

\* A request that has not been sent. file is the request as the client sent
\* it; file_id, file_path and detection_result are the handler's locals, which
\* live until the handler returns or raises; raised records the exception
\* caught inside predict, inserted the rows the request has added; tasks is
\* the request's BackgroundTasks.
Idle ==
  [pc |-> "idle", file |-> NoFile, file_id |-> 0, file_path |-> NoPath,
   detection_result |-> SafeDefault("none"), raised |-> "none",
   tasks |-> {}, inserted |-> 0, response |-> [status |-> 0]]

(* ------------------------- the client's state ------------------------- *)

\* selectedFile === null
NoFileSelected == [name |-> "", size_mb |-> 0, type |-> ""]

\* The files a user drops on the page (the dropzone accepts images up to
\* 50 MB); sizes are in megabytes.
ClientFiles == { [name |-> "large.png", size_mb |-> 20, type |-> "image/png"] }

\* DetectionPage's useState initial values.
DetectionPageMounted ==
  [uploadState |-> "idle", uploadProgress |-> 0, error |-> "",
   selectedFile |-> NoFileSelected, previewUrl |-> ""]

\* result === null
NoResult == [id |-> 0]

\* ResultPage's useState initial values.
ResultPageMounted == [result |-> NoResult, loading |-> TRUE, error |-> ""]

\* The user opens the application on the detection page.
ClientInit ==
  /\ location = <<"detect">>
  /\ dp = DetectionPageMounted
  /\ drop = NoFileSelected
  /\ attempts = <<>>
  /\ rp = ResultPageMounted
  /\ fetches = <<>>

Init ==
  /\ req = [r \in Reqs |-> Idle]
  /\ records = <<>>
  /\ id_seq = 0
  /\ files = {}
  /\ ml_service = NewService
  /\ ClientInit

\* raise HTTPException(status_code=..., detail=...)
HTTPException(status_code, detail) == [status |-> status_code, detail |-> detail]

\* The handler of request q ends with `response`; its locals are gone.
Responded(q, response) ==
  [Idle EXCEPT !.pc = "responded", !.file = q.file, !.tasks = q.tasks,
     !.inserted = q.inserted, !.response = response]

\* An except branch that schedules no cleanup.
ProcessingError_NoCleanup(q, error) ==
  Responded(q, HTTPException(500, <<"Error", "processing", "image:">> \o error))

\* The handler's except branch: the cleanup is added to background_tasks when
\* file_path is a local, and the 500 is raised.
ProcessingError(q, error) ==
  Responded([q EXCEPT !.tasks = IF q.file_path # NoPath
                                  THEN @ \cup {q.file_path} ELSE @],
            HTTPException(500, <<"Error", "processing", "image:">> \o error))

\* The request arrives; FastAPI requires the "file" field (File(...)), then
\* the handler validates the file and draws the identifier.
Validate(r, file) ==
  /\ req[r].pc = "idle"
  /\ \A q \in Reqs : q < r => req[q].pc # "idle"
  /\ req' = [req EXCEPT ![r] =
       IF ~file.present
         THEN Responded([@ EXCEPT !.file = file],
                        HTTPException(422, <<"field", "required">>))
       ELSE IF ~validate_file(file).valid
         THEN Responded([@ EXCEPT !.file = file],
                        HTTPException(400, validate_file(file).error))
       ELSE [@ EXCEPT !.pc = "validated", !.file = file, !.file_id = uuid4(r)]]
  /\ UNCHANGED <<records, id_seq, files, ml_service>>
  /\ UNCHANGED client_vars

\* file_path = await save_uploaded_file(file, file_id); an exception goes to
\* the handler's except branch, where file_path is not yet a local.
Save(r, write_ok) ==
  /\ req[r].pc = "validated"
  /\ LET saved == save_uploaded_file(req[r].file, req[r].file_id, files, write_ok) IN
     /\ files' = saved.disk
     /\ req' = [req EXCEPT ![r] =
          IF saved.ok
            THEN [@ EXCEPT !.pc = "saved", !.file_path = saved.file_path]
            ELSE ProcessingError(@, saved.error)]
  /\ UNCHANGED <<records, id_seq, ml_service>>
  /\ UNCHANGED client_vars

\* detection_result = await ml_service.predict(file_path); predict loads the
\* model first when it is not loaded.
Predict(r, outcome, model_prob, random_prob, raises) ==
  /\ req[r].pc = "saved"
  /\ LET svc == IF ml_service.model_loaded THEN ml_service
                ELSE load_model(ml_service, outcome)
         readable == req[r].file_path \in files /\ req[r].file.content = "image"
         result == predict(svc, readable, model_prob, random_prob, raises)
     IN /\ ml_service' = svc
        /\ req' = [req EXCEPT ![r] =
             IF result.propagates
               THEN ProcessingError(@, result.value.details.text)
               ELSE [@ EXCEPT !.pc = "predicted",
                       !.detection_result = result.value,
                       !.raised = IF ~readable THEN "preprocessing"
                                  ELSE IF raises THEN "inference" ELSE "none"]]
  /\ UNCHANGED <<records, id_seq, files>>
  /\ UNCHANGED client_vars

\* The body of the 200 response.
DetectResponse(file, detection_result, db_result) ==
  [status |-> 200,
   body |-> [file_id |-> db_result.id,
             filename |-> file.filename,
             is_fake |-> detection_result.is_fake,
             confidence |-> detection_result.confidence,
             created_at |-> db_result.created_at]]

\* DetectionResult(...), db.add, db.commit, db.refresh, add_task, return.
\* db is how the database answers: "ok", "commit_fails" (the sequence value is
\* drawn, nothing is stored) or "refresh_fails" (the row is stored, the reload
\* raises); now is the server's clock.
Insert(r, db, now) ==
  /\ req[r].pc = "predicted"
  /\ LET q == req[r]
         row == DetectionResult(q.file, q.file_path, q.detection_result)
         id == id_seq + 1
     IN
     IF ~(validate_confidence(row.confidence_score) /\ validate_file_size(row.file_size))
       THEN /\ req' = [req EXCEPT ![r] =
                 ProcessingError(q, <<"Confidence", "score", "must", "be",
                                      "between", "0.0", "and", "1.0">>)]
            /\ UNCHANGED <<records, id_seq>>
     ELSE IF db = "commit_fails"
       THEN /\ req' = [req EXCEPT ![r] = ProcessingError(q, <<"database", "error">>)]
            /\ id_seq' = id
            /\ UNCHANGED records
     ELSE IF db = "refresh_fails"
       THEN /\ records' = Inserted(records, row, id, now)
            /\ id_seq' = id
            /\ req' = [req EXCEPT ![r] =
                 ProcessingError([q EXCEPT !.inserted = @ + 1],
                                 <<"database", "error">>)]
     ELSE /\ records' = Inserted(records, row, id, now)
          /\ id_seq' = id
          /\ req' = [req EXCEPT ![r] =
               Responded([q EXCEPT !.inserted = @ + 1,
                            !.tasks = @ \cup {q.file_path}],
                         DetectResponse(q.file, q.detection_result,
                                        Last(Inserted(records, row, id, now))))]
  /\ UNCHANGED <<files, ml_service>>
  /\ UNCHANGED client_vars

\* The background task of a request whose handler returned: it runs after the
\* response is sent, attached to the response the handler returned.
Cleanup(r, unlink_ok) ==
  /\ req[r].pc = "responded"
  /\ req[r].response.status = 200
  /\ \E file_path \in req[r].tasks :
       /\ files' = cleanup_file(file_path, files, unlink_ok).disk
       /\ req' = [req EXCEPT ![r] = [@ EXCEPT !.pc = "done", !.tasks = @ \ {file_path}]]
  /\ UNCHANGED <<records, id_seq, ml_service>>
  /\ UNCHANGED client_vars

\* The ids the sequence can hand out, and one it cannot.
Ids == 1..(MaxReq + 1)

\* The read endpoints write nothing.
GetResult(result_id) ==
  /\ get_detection_result(result_id).status \in {200, 404}
  /\ UNCHANGED vars

History(limit, offset) ==
  /\ get_detection_history(limit, offset) # {}
  /\ UNCHANGED vars

Health ==
  /\ health_check.status = 200
  /\ UNCHANGED vars

Next ==
  \/ \E r \in Reqs, file \in Uploads : Validate(r, file)
  \/ \E r \in Reqs, write_ok \in BOOLEAN : Save(r, write_ok)
  \/ \E r \in Reqs, outcome \in {"dummy", "error"},
        model_prob \in ModelProbs, random_prob \in RandomProbs,
        raises \in BOOLEAN :
       Predict(r, outcome, model_prob, random_prob, raises)
  \/ \E r \in Reqs, db \in {"ok", "commit_fails", "refresh_fails"},
        now \in Now :
       Insert(r, db, now)
  \/ \E r \in Reqs, unlink_ok \in BOOLEAN : Cleanup(r, unlink_ok)
  \/ \E result_id \in {id_seq, id_seq + 1} : GetResult(result_id)
  \/ \E limit \in {MaxReq}, offset \in {0} : History(limit, offset)
  \/ Health

Spec == Init /\ [][Next]_vars

(* ---------------- GET /history over the tables it can meet ---------------- *)

\* The limits and offsets GET /history is asked with.
HistoryArgs == 0..MaxReq

\* The uploads that pass validation and the classifications stored for them.
HistoryUploads ==
  { UploadFile(<<"test", "jpg">>, 1024, "image/jpeg", "image"),
    UploadFile(<<"Photo", "PNG">>, MAX_FILE_SIZE, "", "garbage") }

HistoryResults ==
  { predict(svc, readable, model_prob, random_prob, FALSE).value :
      svc \in {NewService, load_model(NewService, "dummy")},
      readable \in BOOLEAN, model_prob \in ModelProbs, random_prob \in RandomProbs }

\* func.now() at an insert into table: see Now.
ClockAfter(table) ==
  IF table = <<>> THEN {1}
  ELSE { t \in {Last(table).created_at, Last(table).created_at + 1} : t <= MaxClock }

\* The tables of at most n rows that successive inserts of detect_fake_content
\* build.
RECURSIVE Tables(_)
Tables(n) ==
  IF n = 0 THEN { <<>> }
  ELSE LET shorter == Tables(n - 1) IN
       shorter \cup
       UNION { { Inserted(table,
                          DetectionResult(file,
                                          StagingPath(file.filename, uuid4(n)),
                                          result),
                          n, now) :
                   file \in HistoryUploads, result \in HistoryResults,
                   now \in ClockAfter(table) } :
               table \in { t \in shorter : Len(t) = n - 1 } }

\* The server with any such table stored and no request in progress.
HistoryInit ==
  /\ records \in Tables(MaxReq)
  /\ id_seq = Len(records)
  /\ req = [r \in Reqs |-> Idle]
  /\ files = {}
  /\ ml_service = NewService
  /\ ClientInit

HistoryNext == \E limit, offset \in HistoryArgs : History(limit, offset)

HistorySpec == HistoryInit /\ [][HistoryNext]_vars

(* ----------------------- client: services/api.js ---------------------- *)

\* The path part of axios' baseURL, REACT_APP_API_URL || 'http://localhost:8000'.
BaseURL == <<>>

\* The prefix the server mounts its routers on (API_V1_PREFIX).
api_prefix == <<"api", "v1">>

\* The path a request of the client arrives at.
RequestPath(request) == BaseURL \o request.url

\* a || b on strings
Or(a, b) == IF a # "" THEN a ELSE b

\* The body of the server's 200 to the a-th upload: every upload gets a
\* record id of its own.
DetectData(a) == [file_id |-> a]

\* The body of the server's 200 to GET /result/{resultId}.
ResultData(resultId) == [id |-> resultId]

\* How the browser's HTTP exchange ends.
Response(data) == [kind |-> "response", data |-> data]

ErrorResponse(detail, message) ==
  [kind |-> "error_response", data |-> [detail |-> detail, message |-> message]]

NoResponse == [kind |-> "no_response", data |-> <<>>]

SetupError == [kind |-> "setup", data |-> <<>>]

\* The failures of an exchange.
Failures ==
  { ErrorResponse("File type not allowed", ""), ErrorResponse("", ""),
    NoResponse, SetupError }

\* api.interceptors.response: the promise api.post / api.get returns.
interceptor(outcome) ==
  CASE outcome.kind = "response" ->
         [resolved |-> TRUE, value |-> outcome.data, message |-> ""]
    [] outcome.kind = "error_response" ->
         [resolved |-> FALSE, value |-> <<>>,
          message |-> Or(outcome.data.detail,
                         Or(outcome.data.message, "Server error"))]
    [] outcome.kind = "no_response" ->
         [resolved |-> FALSE, value |-> <<>>,
          message |-> "Network error - please check your connection"]
    [] OTHER ->
         [resolved |-> FALSE, value |-> <<>>, message |-> "Request failed"]

\* uploadImage(file): the requests it issues.
uploadImage(file) ==
  << [method |-> "POST", url |-> <<"detect">>,
      content_type |-> "multipart/form-data", form |-> [file |-> file]] >>

\* getDetectionResult(resultId): the requests it issues.
getDetectionResult(resultId) ==
  << [method |-> "GET", url |-> <<"result", resultId>>,
      content_type |-> "application/json", form |-> <<>>] >>

(* -------------------- client: pages and the router -------------------- *)

\* The components of a page that unmounts: their promises and timers go on,
\* their setState calls do nothing.
Unmounted(calls) == [k \in DOMAIN calls |-> [calls[k] EXCEPT !.live = FALSE]]

\* fetchResult() of the ResultPage's effect, up to its await.
fetchResult(resultId) ==
  [resultId |-> resultId, promise |-> "pending", live |-> TRUE,
   request |-> getDetectionResult(resultId)]

\* The router moves to `to` (App.js: /detect, /result/:resultId); calls is the
\* list of upload attempts at that moment. A page that was not on screen is
\* mounted; a ResultPage that stays on screen runs its effect again when
\* resultId has changed.
Navigate(to, calls) ==
  /\ location' = to
  /\ IF to[1] = "result"
       THEN IF location[1] = "detect"
              THEN /\ dp' = DetectionPageMounted
                   /\ drop' = NoFileSelected
                   /\ attempts' = Unmounted(calls)
                   /\ rp' = ResultPageMounted
                   /\ fetches' = Append(fetches, fetchResult(to[2]))
              ELSE /\ dp' = dp
                   /\ drop' = drop
                   /\ attempts' = calls
                   /\ IF to = location
                        THEN rp' = rp /\ fetches' = fetches
                        ELSE /\ rp' = [rp EXCEPT !.loading = TRUE]
                             /\ fetches' = Append(fetches, fetchResult(to[2]))
       ELSE /\ dp' = DetectionPageMounted
            /\ drop' = NoFileSelected
            /\ attempts' = calls
            /\ rp' = ResultPageMounted
            /\ fetches' = Unmounted(fetches)

\* What the ResultPage renders.
View(state) ==
  IF state.loading THEN "loading"
  ELSE IF state.error # "" THEN "error"
  ELSE IF state.result = NoResult THEN "not_found"
  ELSE "result"

\* imageCompression(file, options): maxSizeMB 2, fileType image/jpeg.
imageCompression(file) ==
  [name |-> file.name,
   size_mb |-> IF file.size_mb <= 2 THEN file.size_mb ELSE 2,
   type |-> "image/jpeg"]

\* onDrop(acceptedFiles, rejectedFiles), up to its await: a rejected drop
\* sets the error, an accepted one starts the compression.
onDrop(file, rejected) ==
  /\ location = <<"detect">>
  /\ drop = NoFileSelected
  /\ IF rejected
       THEN /\ dp' = [dp EXCEPT !.error =
                        "Please upload a valid image file (JPG, PNG, GIF, BMP, WEBP)"]
            /\ drop' = drop
       ELSE /\ dp' = [dp EXCEPT !.error = "Processing image..."]
            /\ drop' = file
  /\ UNCHANGED <<location, attempts, rp, fetches, server_vars>>

\* onDrop whose catch block reports the failure instead of falling back to
\* the original file.
CompressionSettles_NoFallback(ok) ==
  /\ drop # NoFileSelected
  /\ dp' = IF ok
             THEN [dp EXCEPT !.selectedFile = imageCompression(drop), !.error = "",
                             !.previewUrl = imageCompression(drop).name]
             ELSE [dp EXCEPT !.error = "Image compression failed"]
  /\ drop' = NoFileSelected
  /\ UNCHANGED <<location, attempts, rp, fetches, server_vars>>

\* onDrop after its await: the compressed file, or the original one when the
\* compression failed.
CompressionSettles(ok) ==
  /\ drop # NoFileSelected
  /\ LET file == IF ok THEN imageCompression(drop) ELSE drop IN
     dp' = [dp EXCEPT !.selectedFile = file, !.error = "", !.previewUrl = file.name]
  /\ drop' = NoFileSelected
  /\ UNCHANGED <<location, attempts, rp, fetches, server_vars>>

\* disabled={!selectedFile || uploadState === 'uploading'}
UploadButtonEnabled ==
  dp.selectedFile # NoFileSelected /\ dp.uploadState # "uploading"

\* handleUpload without its check of selectedFile.
handleUpload_NoFileCheck ==
  /\ location = <<"detect">>
  /\ dp.selectedFile = NoFileSelected \/ UploadButtonEnabled
  /\ Len(attempts) < MaxUploads
  /\ dp' = [dp EXCEPT !.uploadState = "uploading", !.uploadProgress = 0,
                      !.error = ""]
  /\ attempts' = Append(attempts,
       [promise |-> "pending", interval |-> TRUE, nav |-> "none",
        file_id |-> 0, live |-> TRUE,
        request |-> uploadImage(dp.selectedFile)])
  /\ UNCHANGED <<location, drop, rp, fetches, server_vars>>

\* handleUpload(), up to its await: without a file it sets the error and
\* returns; with one (the button is enabled) it starts the progress interval
\* and calls uploadImage.
handleUpload ==
  /\ location = <<"detect">>
  /\ IF dp.selectedFile = NoFileSelected
       THEN /\ dp' = [dp EXCEPT !.error = "Please select a file first"]
            /\ attempts' = attempts
       ELSE /\ UploadButtonEnabled
            /\ Len(attempts) < MaxUploads
            /\ dp' = [dp EXCEPT !.uploadState = "uploading", !.uploadProgress = 0,
                                !.error = ""]
            /\ attempts' = Append(attempts,
                 [promise |-> "pending", interval |-> TRUE, nav |-> "none",
                  file_id |-> 0, live |-> TRUE,
                  request |-> uploadImage(dp.selectedFile)])
  /\ UNCHANGED <<location, drop, rp, fetches, server_vars>>

\* A tick of the progress interval of attempt a (every 200 ms).
Tick(a) ==
  /\ attempts[a].interval
  /\ attempts[a].live
  /\ IF dp.uploadProgress >= 90
       THEN /\ dp' = [dp EXCEPT !.uploadProgress = 90]
            /\ attempts' = [attempts EXCEPT ![a].interval = FALSE]
       ELSE /\ dp' = [dp EXCEPT !.uploadProgress = @ + 10]
            /\ attempts' = attempts
  /\ UNCHANGED <<location, drop, rp, fetches, server_vars>>

\* handleUpload whose catch block also sets the navigation timer.
UploadSettles_NavigatesOnError(a, outcome) ==
  /\ attempts[a].promise = "pending"
  /\ LET settled == interceptor(outcome) IN
     IF settled.resolved
       THEN /\ attempts' = [attempts EXCEPT ![a].promise = "resolved",
                                            ![a].interval = FALSE,
                                            ![a].nav = "armed",
                                            ![a].file_id = settled.value.file_id]
            /\ dp' = IF attempts[a].live
                       THEN [dp EXCEPT !.uploadProgress = 100,
                                       !.uploadState = "success"]
                       ELSE dp
       ELSE /\ attempts' = [attempts EXCEPT ![a].promise = "rejected",
                                            ![a].nav = "armed"]
            /\ dp' = IF attempts[a].live
                       THEN [dp EXCEPT !.uploadState = "error",
                                       !.error = Or(settled.message,
                                                    "Upload failed. Please try again."),
                                       !.uploadProgress = 0]
                       ELSE dp
  /\ UNCHANGED <<location, drop, rp, fetches, server_vars>>

\* handleUpload after its await: uploadImage resolved (the interval is
\* cleared, the page shows success and the navigation timer is set) or
\* rejected (the page shows the error).
UploadSettles(a, outcome) ==
  /\ attempts[a].promise = "pending"
  /\ LET settled == interceptor(outcome) IN
     IF settled.resolved
       THEN /\ attempts' = [attempts EXCEPT ![a].promise = "resolved",
                                            ![a].interval = FALSE,
                                            ![a].nav = "armed",
                                            ![a].file_id = settled.value.file_id]
            /\ dp' = IF attempts[a].live
                       THEN [dp EXCEPT !.uploadProgress = 100,
                                       !.uploadState = "success"]
                       ELSE dp
       ELSE /\ attempts' = [attempts EXCEPT ![a].promise = "rejected"]
            /\ dp' = IF attempts[a].live
                       THEN [dp EXCEPT !.uploadState = "error",
                                       !.error = Or(settled.message,
                                                    "Upload failed. Please try again."),
                                       !.uploadProgress = 0]
                       ELSE dp
  /\ UNCHANGED <<location, drop, rp, fetches, server_vars>>

\* The timer set after a successful upload fires (1500 ms):
\* navigate(`/result/${result.file_id}`).
NavigateAfterDelay(a) ==
  /\ attempts[a].nav = "armed"
  /\ Navigate(<<"result", attempts[a].file_id>>,
              [attempts EXCEPT ![a].nav = "done"])
  /\ UNCHANGED server_vars

\* resetUpload(): the Reset button is shown with a selected file and disabled
\* while uploading.
resetUpload ==
  /\ location = <<"detect">>
  /\ dp.selectedFile # NoFileSelected
  /\ dp.uploadState # "uploading"
  /\ dp' = DetectionPageMounted
  /\ UNCHANGED <<location, drop, attempts, rp, fetches, server_vars>>

\* The ResultPage's links to /detect.
GoToDetect ==
  /\ location[1] = "result"
  /\ Navigate(<<"detect">>, attempts)
  /\ UNCHANGED server_vars

\* fetchResult after its await: setResult or setError, then setLoading(false).
FetchSettles(k, outcome) ==
  /\ fetches[k].promise = "pending"
  /\ LET settled == interceptor(outcome) IN
     /\ fetches' = [fetches EXCEPT ![k].promise =
                      IF settled.resolved THEN "resolved" ELSE "rejected"]
     /\ rp' = IF ~fetches[k].live THEN rp
              ELSE IF settled.resolved
                THEN [rp EXCEPT !.result = settled.value, !.loading = FALSE]
                ELSE [rp EXCEPT !.error = Or(settled.message, "Failed to load result"),
                                !.loading = FALSE]
  /\ UNCHANGED <<location, dp, drop, attempts, server_vars>>

ClientNext ==
  \/ \E file \in ClientFiles, rejected \in BOOLEAN : onDrop(file, rejected)
  \/ \E ok \in BOOLEAN : CompressionSettles(ok)
  \/ handleUpload
  \/ \E a \in 1..Len(attempts) : Tick(a)
  \/ \E a \in 1..Len(attempts) :
       \E outcome \in { Response(DetectData(a)) } \cup Failures :
         UploadSettles(a, outcome)
  \/ \E a \in 1..Len(attempts) : NavigateAfterDelay(a)
  \/ resetUpload
  \/ GoToDetect
  \/ \E k \in 1..Len(fetches) :
       \E outcome \in { Response(ResultData(fetches[k].resultId)) } \cup Failures :
         FetchSettles(k, outcome)

ClientSpec == Init /\ [][ClientNext]_vars

(* ------------------------------ properties ---------------------------- *)

\* The requests answered 200.
Succeeded == { r \in Reqs : req[r].response.status = 200 }

\* The rows of the table whose id is `id`.
RowsWithId(id) == { i \in 1..Len(records) : records[i].id = id }

\* C1: every stored detection record has a confidence with 0.0 <= confidence
\* <= 1.0: the classifier's outcome that a handler is about to store is in the
\* range, the write accepts the ends of the range and rejects a value outside
\* it, and so every row of the table is in the range.
C1_ConfidenceInRange ==
  /\ \A i \in 1..Len(records) :
       0 <= records[i].confidence_score /\ records[i].confidence_score <= One
  /\ \A r \in Reqs :
       req[r].pc = "predicted" =>
         0 <= req[r].detection_result.confidence
         /\ req[r].detection_result.confidence <= One
  /\ validate_confidence(0) /\ validate_confidence(One)
  /\ ~validate_confidence(0 - 1) /\ ~validate_confidence(One + 1)

\* Two rows are stored, one with the error default 0.0 and one with a
\* classifier confidence at the top of the range.
C1_Witness ==
  /\ \E i \in 1..Len(records) : records[i].confidence_score = 0
  /\ \E i \in 1..Len(records) : records[i].confidence_score = One

\* C2: for every upload answered 200, GET /result/{file_id} with the file_id
\* of the upload's response is answered 200, with id equal to that file_id and
\* the same filename, is_fake and confidence as the upload's response.
C2_RoundTrip ==
  \A r \in Succeeded :
    LET up == req[r].response.body
        got == get_detection_result(up.file_id)
    IN  /\ got.status = 200
        /\ got.body.id = up.file_id
        /\ got.body.filename = up.filename
        /\ got.body.is_fake = up.is_fake
        /\ got.body.confidence = up.confidence

\* Two uploads of different files were answered 200, the first of them before
\* the second was stored.
C2_Witness ==
  /\ Cardinality(Succeeded) = 2
  /\ \E r, q \in Succeeded :
       req[r].response.body.filename # req[q].response.body.filename

\* 'not allowed' in detail.lower()
ContainsNotAllowed(detail) ==
  \E i \in 1..(Len(detail) - 1) :
    Lower(detail[i]) = "not" /\ Lower(detail[i + 1]) = "allowed"

\* An upload with a filename whose extension is not in the allowed set.
DisallowedExtension(file) ==
  /\ file.present
  /\ file.filename # <<"">>
  /\ Extension(file.filename) \notin ALLOWED_EXTENSIONS

\* The step in which request r arrives and its validation is decided.
Arrives(r) == req[r].pc = "idle" /\ req'[r].pc # "idle"

\* C3 as stated: every upload whose filename extension is not in the allowed
\* set is answered 400 with a detail that contains 'not allowed', and the
\* table and the staged files are the same after the request as before.
C3_Original ==
  [][\A r \in Reqs :
       Arrives(r) /\ DisallowedExtension(req'[r].file) =>
         /\ req'[r].response.status = 400
         /\ ContainsNotAllowed(req'[r].response.detail)
         /\ req'[r].pc = "responded"
         /\ records' = records
         /\ files' = files]_vars

\* C3, amended: every upload whose filename extension is not in the allowed
\* set is answered 400, and the table and the staged files are the same after
\* the request as before; the detail contains 'not allowed' unless the file is
\* also larger than the maximum size, and then it is the size message.
C3_DisallowedExtensionRejected ==
  [][\A r \in Reqs :
       Arrives(r) /\ DisallowedExtension(req'[r].file) =>
         /\ req'[r].response.status = 400
         /\ IF req'[r].file.size > MAX_FILE_SIZE
              THEN req'[r].response.detail =
                     <<"File", "size", "exceeds", "maximum", "allowed", "size">>
              ELSE ContainsNotAllowed(req'[r].response.detail)
         /\ req'[r].pc = "responded"
         /\ records' = records
         /\ files' = files]_vars

\* A .txt upload declared as an image was rejected for its extension, and an
\* oversize .txt upload for its size.
C3_Witness ==
  \E r, q \in Reqs :
    /\ req[r].pc = "responded" /\ req[r].response.status = 400
    /\ req[r].file.filename = <<"notes", "TXT">>
    /\ ContainsNotAllowed(req[r].response.detail)
    /\ req[q].pc = "responded" /\ req[q].response.status = 400
    /\ DisallowedExtension(req[q].file)
    /\ req[q].file.size > MAX_FILE_SIZE

\* C4: GET /result/{id} is answered 404 when no record with that id exists,
\* and 200 when one exists.
C4_NotFoundIffMissing ==
  \A id \in Ids \cup {0} :
    get_detection_result(id).status = IF RowsWithId(id) = {} THEN 404 ELSE 200

\* The sequence skipped an id (a failed commit): that id is answered 404 while
\* the id after it is answered 200.
C4_Witness ==
  \E id \in Ids :
    /\ id + 1 \in Ids
    /\ RowsWithId(id) = {} /\ get_detection_result(id).status = 404
    /\ RowsWithId(id + 1) # {} /\ get_detection_result(id + 1).status = 200

C6_Original ==
  [][records' # records =>
       \A id \in Ids : get_detection_result(id)' = get_detection_result(id)]_vars

\* C6, amended: for the id of a stored record, repeated GET /result/{id} calls
\* return identical responses whatever uploads, history reads and cleanup
\* tasks are interleaved between them, and the read itself changes neither the
\* table nor the staged files. (The response is computed from the table, so
\* the steps that could change it are those that write the table.)
C6_ReadsRepeatable ==
  [][/\ records' # records =>
          \A id \in Ids :
            get_detection_result(id).status = 200 =>
              get_detection_result(id)' = get_detection_result(id)
     /\ (\E id \in Ids : GetResult(id)) => records' = records /\ files' = files
    ]_vars

\* A record was read while a second upload was stored and a cleanup ran.
C6_Witness ==
  /\ Len(records) = 2
  /\ get_detection_result(records[1].id).status = 200
  /\ \E r \in Reqs : req[r].pc = "done"

\* C7: a POST /detect answered 200 creates exactly one record (one row has
\* the id it returned, and the table holds one row per request that stored
\* one), and a stored record is never changed or deleted by any later step.
C7_CreatedOnceNeverChanged ==
  /\ [](/\ \A r \in Succeeded :
             /\ req[r].inserted = 1
             /\ Cardinality(RowsWithId(req[r].response.body.file_id)) = 1
        /\ \A r \in Reqs : req[r].inserted <= 1
        /\ Len(records) = Cardinality({ r \in Reqs : req[r].inserted = 1 }))
  /\ [][/\ Len(records') >= Len(records)
        /\ \A i \in 1..Len(records) : records'[i] = records[i]]_vars

\* Both uploads were stored, and the first one's cleanup has run.
C7_Witness ==
  /\ Cardinality(Succeeded) = 2
  /\ Len(records) = 2
  /\ \E r \in Succeeded : req[r].pc = "done"

\* A request with no file, a file over the size limit, or a declared MIME
\* type outside the allowed image types.
Unacceptable(file) ==
  \/ ~file.present
  \/ file.size > MAX_FILE_SIZE
  \/ file.content_type # "" /\ file.content_type \notin ALLOWED_MIME_TYPES

\* C8: POST /detect answers a request whose file is absent, larger than
\* MAX_FILE_SIZE or of a MIME type outside the allowed image types with a 4xx
\* and a reason, stages no file and stores no record for it.
C8_UnacceptableRejected ==
  /\ [](\A r \in Reqs :
          req[r].pc # "idle" /\ Unacceptable(req[r].file) =>
            /\ req[r].pc = "responded"
            /\ req[r].response.status >= 400 /\ req[r].response.status <= 499
            /\ req[r].response.detail # <<>>
            /\ req[r].inserted = 0
            /\ req[r].tasks = {}
            /\ StagingPath(req[r].file.filename, uuid4(r)) \notin files)
  /\ [][\A r \in Reqs :
          Arrives(r) /\ Unacceptable(req'[r].file) =>
            records' = records /\ files' = files]_vars

\* An oversize image was answered 400 and a request without a file 422.
C8_Witness ==
  \E r, q \in Reqs :
    /\ req[r].pc = "responded" /\ req[r].response.status = 400
    /\ req[r].file.filename = <<"big", "jpg">>
    /\ req[q].pc = "responded" /\ req[q].response.status = 422
    /\ ~req[q].file.present

\* The requests whose file is staged on disk.
Staged == { r \in Reqs : req[r].file_path # NoPath /\ req[r].file_path \in files }

\* C9 as stated: the staging path of an upload is the same whatever filename
\* the client gave (any filename the validation accepts), and is inside the
\* upload directory.
C9_Original ==
  \A r \in Staged :
    /\ InUploadDir(req[r].file_path)
    /\ \A filename \in Filenames :
         validate_file([req[r].file EXCEPT !.filename = filename]).valid =>
           StagingPath(filename, req[r].file_id) = req[r].file_path

\* C9, amended: the staging path is determined by the random identifier and
\* the lowercased extension of the client's filename: it is the same for every
\* filename with that extension, its stem is the identifier, and it is inside
\* the upload directory.
C9_PathFromIdAndExtension ==
  \A r \in Staged :
    /\ InUploadDir(req[r].file_path)
    /\ Len(req[r].file_path) = 2
    /\ req[r].file_path[2].stem = req[r].file_id
    /\ \A filename \in Filenames :
         /\ validate_file([req[r].file EXCEPT !.filename = filename]).valid
         /\ Extension(filename) = Extension(req[r].file.filename)
         => StagingPath(filename, req[r].file_id) = req[r].file_path

\* Photo.PNG and test.jpg are both staged.
C9_Witness ==
  \E r, q \in Staged :
    /\ req[r].file.filename = <<"Photo", "PNG">>
    /\ req[q].file.filename = <<"test", "jpg">>

\* The 500 that detect_fake_content would give if predict's exception
\* reached it.
PredictionErrorResponse(cause) ==
  HTTPException(500, <<"Error", "processing", "image:">> \o SafeDefault(cause).details.text)

\* C10: when preprocessing or inference raises inside predict, predict
\* returns is_fake false, confidence 0.0 and details 'Error during
\* prediction: ...', and the exception does not reach the handler: no request
\* is answered with the handler's 500 for it.
C10_PredictSafeDefault ==
  /\ \A r \in Reqs :
       req[r].pc = "predicted" /\ req[r].raised # "none" =>
         /\ req[r].detection_result.is_fake = FALSE
         /\ req[r].detection_result.confidence = 0
         /\ req[r].detection_result.details.text =
              <<"Error", "during", "prediction:", req[r].raised>>
  /\ \A r \in Reqs, cause \in {"preprocessing", "inference"} :
       req[r].response # PredictionErrorResponse(cause)

\* One upload's preprocessing raised and another's inference raised; both
\* handlers hold predict's return value.
C10_Witness ==
  \E r, q \in Reqs :
    /\ req[r].pc = "predicted" /\ req[r].raised = "preprocessing"
    /\ req[q].pc = "predicted" /\ req[q].raised = "inference"

\* The staging path of request r's upload.
OwnPath(r) == StagingPath(req[r].file.filename, uuid4(r))

\* C11 as stated: the confidence stored for a detection and returned by
\* POST /detect and GET /result is the classifier's estimated probability that
\* the image is fake (the raw_fake_probability of the analysis details), both
\* when is_fake is true and when it is false.
C11_ConfidenceIsFakeProbability ==
  /\ \A i \in 1..Len(records) :
       /\ records[i].confidence_score = records[i].analysis_details.raw
       /\ get_detection_result(records[i].id).body.confidence =
            records[i].analysis_details.raw
  /\ \A r \in Succeeded :
       \A i \in RowsWithId(req[r].response.body.file_id) :
         req[r].response.body.confidence = records[i].analysis_details.raw

\* The request's handling is over: the response is sent and the background
\* tasks attached to it, if any, have run.
Handled(r) ==
  \/ req[r].pc = "done"
  \/ req[r].pc = "responded" /\ req[r].response.status # 200

\* C12 as stated: for every POST /detect that wrote a staging file, whether
\* it ends with a success or a failure response, the staged file exists until
\* the inference call has returned, the cleanup runs only after the response
\* is produced, and once the request's handling is over the file is removed.
C12_StagedFileRemoved ==
  /\ \A r \in Reqs : req[r].pc = "saved" => req[r].file_path \in files
  /\ \A r \in Reqs : Handled(r) => OwnPath(r) \notin files

\* Paths whose cleanup fails whatever unlink does: a file already deleted and
\* a file outside the upload directory.
MissingPath == <<UPLOAD_FOLDER, [stem |-> 0, ext |-> "jpg"]>>

OutsidePath == <<"etc", [stem |-> 0, ext |-> "jpg"]>>

\* C13: a failure of the cleanup task (file already deleted, permission
\* denied, path outside the upload directory) is swallowed: cleanup_file
\* returns false and leaves the disk as it was, and the step in which the
\* task runs changes neither the response computed for the client nor the
\* table.
C13_CleanupFailureSwallowed ==
  /\ [](\A unlink_ok \in BOOLEAN :
          /\ cleanup_file(MissingPath, files, unlink_ok) =
               [removed |-> FALSE, disk |-> files]
          /\ cleanup_file(OutsidePath, files \cup {OutsidePath}, unlink_ok) =
               [removed |-> FALSE, disk |-> files \cup {OutsidePath}]
          /\ \A file_path \in files :
               cleanup_file(file_path, files, FALSE) =
                 [removed |-> FALSE, disk |-> files])
  /\ [][\A r \in Reqs :
          req[r].pc = "responded" /\ req'[r].pc = "done" =>
            /\ req'[r].response = req[r].response
            /\ records' = records
            /\ files' \subseteq files
            /\ \A q \in Reqs \ {r} : req'[q] = req[q]]_vars

\* A cleanup task ran and failed (permission denied): the request is done, its
\* file is still on disk and its record is stored.
C13_Witness ==
  \E r \in Reqs :
    /\ req[r].pc = "done"
    /\ OwnPath(r) \in files
    /\ RowsWithId(req[r].response.body.file_id) # {}

\* The step in which request r's handler fails while staging the file.
StagingFails(r) == req[r].pc = "validated" /\ req'[r].pc = "responded"

\* The step in which request r's handler leaves the database stage.
Stored(r) == req[r].pc = "predicted" /\ req'[r].pc = "responded"

\* C14 as stated: for a validated upload, a failure at any processing stage
\* (file I/O failure while staging, classification exception, database
\* failure) is answered 5xx, and the cleanup of a staged file is scheduled
\* whichever stage failed.
C14_Original ==
  [][\A r \in Reqs :
       /\ StagingFails(r) => req'[r].response.status >= 500
       /\ Stored(r) /\ req[r].raised # "none" =>
            /\ req'[r].response.status >= 500
            /\ req[r].file_path \in req'[r].tasks
       /\ Stored(r) /\ req'[r].response.status # 200 =>
            /\ req'[r].response.status >= 500
            /\ req[r].file_path \in req'[r].tasks]_vars

\* C14, amended: for a validated upload, a file I/O failure while staging and
\* a database failure are answered 500, and the cleanup of a staged file is
\* scheduled when the database stage fails (a failed staging leaves no file);
\* an exception during classification is not surfaced: predict returns its
\* safe default and the request goes on to the database stage, where it is
\* answered 200 with is_fake false and confidence 0.0 unless the database
\* fails.
C14_FailuresSurfaced ==
  [][\A r \in Reqs :
       /\ StagingFails(r) =>
            /\ req'[r].response.status = 500
            /\ req'[r].tasks = {}
            /\ OwnPath(r) \notin files'
       /\ req[r].pc = "saved" /\ req'[r] # req[r] =>
            /\ req'[r].pc = "predicted"
            /\ req'[r].raised # "none" =>
                 req'[r].detection_result = SafeDefault(req'[r].raised)
       /\ Stored(r) =>
            /\ req'[r].response.status \in {200, 500}
            /\ req'[r].response.status = 500 =>
                 req'[r].tasks = {req[r].file_path} /\ req[r].file_path # NoPath
            /\ req'[r].response.status = 200 /\ req[r].raised # "none" =>
                 /\ req'[r].response.body.is_fake = FALSE
                 /\ req'[r].response.body.confidence = 0]_vars

\* One upload failed in the database stage, answered 500 with its cleanup
\* scheduled; another, whose classification raised, was answered 200 with
\* the safe default.
C14_Witness ==
  \E r, q \in Reqs :
    /\ req[r].response.status = 500 /\ req[r].tasks = {OwnPath(r)}
    /\ req[q].response.status = 200
    /\ req[q].response.body.is_fake = FALSE
    /\ req[q].response.body.confidence = 0

Max(a, b) == IF a >= b THEN a ELSE b

\* What GET /history owes for the table as it stands, for every limit L and
\* offset O asked.
HistoryPageOf(table) ==
  LET total == Len(table)
      sorted == { p \in RowOrders(total) :
                    \A i, j \in 1..total :
                      i < j => table[p[i]].created_at >= table[p[j]].created_at }
  IN  \A L, O \in HistoryArgs :
        LET responses == get_detection_history(L, O) IN
        /\ responses # {}
        /\ \A resp \in responses :
             LET results == resp.body.results IN
             /\ resp.status = 200
             /\ Len(results) = Min(L, Max(0, total - O))
             /\ resp.body.total = total
             /\ resp.body.has_next = (O + L < total)
             /\ \E p \in sorted :
                  \A k \in 1..Len(results) :
                    /\ results[k].id = table[p[O + k]].id
                    /\ results[k].filename = table[p[O + k]].filename
                    /\ results[k].is_fake = table[p[O + k]].is_fake
                    /\ results[k].confidence = table[p[O + k]].confidence_score
                    /\ results[k].created_at = table[p[O + k]].created_at

\* C15: for every table content and every limit L >= 0 and offset O >= 0,
\* GET /history returns the records at positions O .. O+L-1 of the table
\* sorted by creation time descending (min(L, max(0, total-O)) entries),
\* total is the number of stored records, and has_next is true exactly when
\* O + L < total.
C15_HistoryPage == HistoryPageOf(records)

\* Two records with different creation times are stored, so that limit 1 with
\* offset 0 has a next page and limit 1 with offset 1 is the last page.
C15_Witness ==
  /\ Len(records) = 2
  /\ records[1].created_at < records[2].created_at
  /\ \A resp \in get_detection_history(1, 0) : resp.body.has_next
  /\ \A resp \in get_detection_history(1, 1) :
       ~resp.body.has_next /\ Len(resp.body.results) = 1

\* C16: concurrent POST /detect requests are independent: under every
\* interleaving of their steps no two requests share a staging path, the
\* stored records have distinct ids, each successful request has exactly one
\* record, built from its own upload and staging path, and its response
\* reports that record's id and classification.
C16_RequestsIndependent ==
  /\ \A r, q \in Reqs :
       r # q /\ req[r].file_path # NoPath /\ req[q].file_path # NoPath =>
         req[r].file_path # req[q].file_path
  /\ \A i, j \in 1..Len(records) : i # j => records[i].id # records[j].id
  /\ \A r, q \in Succeeded :
       r # q => req[r].response.body.file_id # req[q].response.body.file_id
  /\ \A r \in Succeeded :
       LET body == req[r].response.body IN
       /\ Cardinality(RowsWithId(body.file_id)) = 1
       /\ \A i \in RowsWithId(body.file_id) :
            /\ records[i].file_path = OwnPath(r)
            /\ records[i].filename = req[r].file.filename
            /\ records[i].is_fake = body.is_fake
            /\ records[i].confidence_score = body.confidence
            /\ records[i].created_at = body.created_at

\* Two requests ran interleaved and both succeeded: the request that arrived
\* second stored its record first, with a different classification.
C16_Witness ==
  /\ Cardinality(Succeeded) = 2
  /\ Len(records) = 2
  /\ records[1].file_path = OwnPath(2)
  /\ records[2].file_path = OwnPath(1)
  /\ records[1].is_fake # records[2].is_fake

\* C17 as stated: every uploadImage(file) call issues exactly one request, a
\* POST to '/api/v1/detect' whose body is a multipart FormData with the single
\* field 'file' holding that file, and every getDetectionResult(id) call
\* issues exactly one request, a GET to '/api/v1/result/{id}'.
C17_RequestsUnderApiPrefix ==
  /\ \A a \in 1..Len(attempts) :
       /\ Len(attempts[a].request) = 1
       /\ attempts[a].request[1].method = "POST"
       /\ attempts[a].request[1].content_type = "multipart/form-data"
       /\ DOMAIN attempts[a].request[1].form = {"file"}
       /\ RequestPath(attempts[a].request[1]) = api_prefix \o <<"detect">>
  /\ \A k \in 1..Len(fetches) :
       /\ Len(fetches[k].request) = 1
       /\ fetches[k].request[1].method = "GET"
       /\ RequestPath(fetches[k].request[1]) =
            api_prefix \o <<"result", fetches[k].resultId>>

\* The step in which the uploadImage call of attempt a settles.
Settles(a, how) ==
  /\ a \in 1..Len(attempts)
  /\ attempts[a].promise = "pending"
  /\ attempts'[a].promise = how

\* C18: when uploadImage resolves for the mounted DetectionPage, uploadState
\* becomes 'success' and the navigation timer is set, and when it fires the
\* location becomes /result/{file_id} with the file_id of that response; when
\* uploadImage rejects, uploadState becomes 'error' with a non-empty message
\* (the rejection's, or 'Upload failed. Please try again.'), and that attempt
\* never navigates.
C18_UploadOutcomeShown ==
  /\ [](\A a \in 1..Len(attempts) :
          /\ attempts[a].promise = "rejected" => attempts[a].nav = "none"
          /\ attempts[a].nav # "none" =>
               /\ attempts[a].promise = "resolved"
               /\ attempts[a].file_id = DetectData(a).file_id)
  /\ [][\A a \in 1..MaxUploads :
          /\ Settles(a, "resolved") =>
               /\ attempts'[a].nav = "armed"
               /\ attempts[a].live =>
                    dp'.uploadState = "success" /\ dp'.uploadProgress = 100
          /\ Settles(a, "rejected") =>
               /\ attempts'[a].nav = "none"
               /\ location' = location
               /\ attempts[a].live =>
                    /\ dp'.uploadState = "error"
                    /\ dp'.error # ""
                    /\ dp'.uploadProgress = 0
          /\ (a \in 1..Len(attempts) /\ attempts[a].nav = "armed"
                /\ attempts'[a].nav = "done") =>
               location' = <<"result", DetectData(a).file_id>>]_vars

\* A first upload was rejected and the page showed its message; the second
\* one resolved and the page has navigated to its result.
C18_Witness ==
  /\ Len(attempts) = 2
  /\ attempts[1].promise = "rejected" /\ attempts[1].nav = "none"
  /\ attempts[2].promise = "resolved" /\ attempts[2].nav = "done"
  /\ location = <<"result", 2>>

\* C19: handleUpload called with no file selected sets the error message
\* 'Please select a file first' and changes nothing else: no request is
\* issued, and uploadState and uploadProgress keep their values. While no
\* file is selected, no step of the page issues a request.
C19_NoFileNoRequest ==
  [][dp.selectedFile = NoFileSelected /\ location = <<"detect">> =>
       /\ Len(attempts') = Len(attempts)
       /\ handleUpload =>
            /\ dp' = [dp EXCEPT !.error = "Please select a file first"]
            /\ dp'.uploadState = dp.uploadState
            /\ dp'.uploadProgress = dp.uploadProgress
            /\ attempts' = attempts
            /\ fetches' = fetches]_vars

\* handleUpload ran with no file selected after an upload and a reset: the
\* page shows the message, still in state 'idle', and only the first upload's
\* request was ever issued.
C19_Witness ==
  /\ location = <<"detect">>
  /\ dp.selectedFile = NoFileSelected
  /\ dp.error = "Please select a file first"
  /\ dp.uploadState = "idle"
  /\ Len(attempts) = 1

\* The fetch the mounted ResultPage started last: the one for the route's
\* current resultId.
CurrentFetch == fetches[Len(fetches)]

\* C20 as stated: on the ResultPage, a settled fetch leaves loading false;
\* once the fetch for the current resultId has succeeded the page renders the
\* result view for it, and once it has failed the page renders the error view
\* with the message, also when the route's resultId changed after an earlier
\* fetch failed.
C20_ViewFollowsCurrentFetch ==
  location[1] = "result" /\ (\A k \in 1..Len(fetches) : fetches[k].promise # "pending") =>
    /\ CurrentFetch.resultId = location[2]
    /\ ~rp.loading
    /\ CurrentFetch.promise = "resolved" =>
         View(rp) = "result" /\ rp.result = ResultData(location[2])
    /\ CurrentFetch.promise = "rejected" =>
         View(rp) = "error" /\ rp.error # ""

\* C21: onDrop with an accepted file starts the compression, and when the
\* compression settles a file is selected: the compressed file when it
\* succeeded, the original file when it failed; in both cases the error
\* message is cleared and the preview URL is the selected file's, and the
\* upload button is enabled unless an upload is running.
C21_DropEndsWithFile ==
  [][/\ \A file \in ClientFiles : onDrop(file, FALSE) => drop' = file
     /\ \A ok \in BOOLEAN :
          CompressionSettles(ok) =>
            /\ dp'.selectedFile = (IF ok THEN imageCompression(drop) ELSE drop)
            /\ dp'.selectedFile # NoFileSelected
            /\ dp'.error = ""
            /\ dp'.previewUrl = dp'.selectedFile.name
            /\ dp'.uploadState # "uploading" => UploadButtonEnabled']_vars

\* The compression of a dropped file failed and the original file is
\* selected, with its preview and no error.
C21_Witness ==
  /\ location = <<"detect">>
  /\ dp.selectedFile \in ClientFiles
  /\ dp.selectedFile.size_mb > 2
  /\ dp.previewUrl = dp.selectedFile.name
  /\ dp.error = ""
  /\ drop = NoFileSelected

\* Request r was answered with the error of a failed save_uploaded_file.
SaveFailed(r) ==
  /\ req[r].response.status = 500
  /\ Len(req[r].response.detail) >= 6
  /\ SubSeq(req[r].response.detail, 4, 6) = <<"Error", "saving", "file:">>

\* C22: when save_uploaded_file fails (empty content, write error), the
\* client is answered with an error response, the step stores no record and
\* leaves no file at the upload's staging path, and none appears later: the
\* request has no record and no staged file.
C22_SaveFailureLeavesNothing ==
  /\ [](\A r \in Reqs :
          SaveFailed(r) =>
            /\ OwnPath(r) \notin files
            /\ req[r].inserted = 0
            /\ req[r].tasks = {}
            /\ \A i \in 1..Len(records) : records[i].file_path # OwnPath(r))
  /\ [][\A r \in Reqs :
          StagingFails(r) =>
            /\ SaveFailed(r)'
            /\ req'[r].response.status >= 400
            /\ records' = records
            /\ id_seq' = id_seq
            /\ OwnPath(r) \notin files'
            /\ files' \subseteq files]_vars

\* An upload with empty content and an upload whose write failed were both
\* answered with the save error.
C22_Witness ==
  \E r, q \in Reqs :
    /\ SaveFailed(r) /\ req[r].file.content = "empty"
    /\ SaveFailed(q) /\ req[q].file.content # "empty"
    /\ Last(req[q].response.detail) = "failed"

\* Request r's file is staged and its handler has not responded yet: the
\* inference call may still read it.
InFlight(r) == req[r].pc = "saved"

\* C23: no two uploads are ever staged at the same path, one after the other
\* or at the same time, so no step of a request (its cleanup task, or the
\* removal after a failed save) takes away the staged file of another request
\* that has not finished its inference call: that file is on disk until its
\* own request has gone on.
C23_StagedFilesDisjoint ==
  /\ [](\A r, q \in Reqs :
          r # q /\ req[r].pc # "idle" /\ req[q].pc # "idle" =>
            OwnPath(r) # OwnPath(q))
  /\ [](\A r \in Reqs : InFlight(r) => req[r].file_path = OwnPath(r)
                                        /\ OwnPath(r) \in files)
  /\ [][\A r \in Reqs :
          req'[r] # req[r] =>
            /\ files \ files' \subseteq {OwnPath(r)}
            /\ files' \ files \subseteq {OwnPath(r)}
            /\ \A q \in Reqs \ {r} :
                 InFlight(q) => req[q].file_path \in files']_vars

\* The cleanup task of one request has removed its file while another
\* request, which uploaded a file of the same name, is between staging and
\* inference with its file on disk.
C23_Witness ==
  \E r, q \in Reqs :
    /\ r # q
    /\ req[r].pc = "done" /\ OwnPath(r) \notin files
    /\ req[r].response.status = 200
    /\ InFlight(q) /\ req[q].file_path \in files
    /\ req[q].file.filename = req[r].file.filename

\* The upload attempts whose request is in flight.
InFlightUploads == { a \in 1..Len(attempts) : attempts[a].promise = "pending" }

\* C24 as stated: DetectionPage never has more than one upload request in
\* flight, and between a successful upload and the navigation it triggers no
\* second upload is started: while the navigation timer of an attempt is
\* set, that attempt is the last one.
C24_OneUploadOneNavigation ==
  /\ Cardinality(InFlightUploads) <= 1
  /\ \A a \in 1..Len(attempts) :
       attempts[a].nav = "armed" => a = Len(attempts)

\* C25 as stated: in every state of the mounted DetectionPage uploadProgress
\* is within 0..100, uploadState 'uploading' implies uploadProgress <= 90,
\* 'success' implies uploadProgress = 100 and 'error' implies
\* uploadProgress = 0.
C25_ProgressMatchesState ==
  location = <<"detect">> =>
    /\ dp.uploadProgress \in 0..100
    /\ dp.uploadState = "uploading" => dp.uploadProgress <= 90
    /\ dp.uploadState = "success" => dp.uploadProgress = 100
    /\ dp.uploadState = "error" => dp.uploadProgress = 0

\* The progress timers that are running.
ActiveIntervals == { a \in 1..Len(attempts) : attempts[a].interval }

\* C26 as stated: the progress interval handleUpload started is not active
\* once its upload attempt has completed, with success or with failure, and
\* at most one such timer is active at any time.
C26_IntervalsCleared ==
  /\ \A a \in 1..Len(attempts) :
       attempts[a].promise # "pending" => ~attempts[a].interval
  /\ Cardinality(ActiveIntervals) <= 1

\* C27 as stated: resetUpload puts DetectionPage back in its initial state
\* and leaves the location alone, and afterwards the page stays on the
\* detection page unless a later upload succeeds. The mounted page is 'idle'
\* with an upload attempt of its own behind it only after a reset, so no
\* navigation timer of the mounted page fires while the page is 'idle'.
C27_ResetStaysOnPage ==
  [][/\ resetUpload => dp' = DetectionPageMounted /\ location' = location
     /\ \A a \in 1..Len(attempts) :
          (attempts[a].live /\ attempts[a].nav = "armed"
            /\ attempts'[a].nav = "done") =>
            dp.uploadState # "idle"]_vars

\* C28 as stated: on the ResultPage, whatever the order in which the
\* responses of overlapping fetches arrive, no result of another id than the
\* route's current resultId is on display while loading is false; in
\* particular the result displayed once all fetches have settled is the
\* current resultId's.
C28_DisplayedResultIsCurrent ==
  location[1] = "result" /\ View(rp) = "result" =>
    rp.result = ResultData(location[2])

\* One megabyte, in bytes.
MB == 1024 * 1024

\* The "file" part POST /detect receives for a file the client sends.
MultipartFile(file) ==
  UploadFile(<<"large", "png">>, file.size_mb * MB, file.type, "image")

\* C29 as stated: every file DetectionPage sends to POST /detect satisfies
\* the server's size limit, after a successful compression and after the
\* fallback to the original file, so the server does not reject it for its
\* size.
C29_SentFileWithinServerLimit ==
  \A a \in 1..Len(attempts) :
    LET sent == MultipartFile(attempts[a].request[1].form.file) IN
    /\ sent.size <= MAX_FILE_SIZE
    /\ validate_file(sent).valid

\* The stored rows that request r inserted.
RowsOf(r) == { i \in 1..Len(records) : records[i].file_path = OwnPath(r) }

\* C30 as stated: a POST /detect answered 5xx has inserted no record: a
\* record exists for a request exactly when the request's response is a 200
\* carrying that record's id.
C30_RecordIffSuccess ==
  \A r \in Reqs :
    req[r].pc \in {"responded", "done"} =>
      /\ req[r].response.status >= 500 => RowsOf(r) = {}
      /\ (RowsOf(r) # {}) = (req[r].response.status = 200)
      /\ req[r].response.status = 200 =>
           \A i \in RowsOf(r) : records[i].id = req[r].response.body.file_id

====
